---------------------------- MODULE Spec2Model ----------------------------
(***************************************************************************)
(* A model of src/app.py, the Streamlit "Dominant Color Extractor".        *)
(*                                                                         *)
(*   SpecColour   get_color_name (lines 83-99) and the hex formatting of   *)
(*                line 73, applied to one colour.                          *)
(*   SpecExtract  one call of extract_colors_kmeans (lines 55-81).         *)
(*   SpecSession  the script body (lines 121-231) rerun by Streamlit over  *)
(*                one session's st.session_state.                          *)
(*   SpecDetect   the result cache of the detection loop (specification    *)
(*                section 4.1; that script is not among the sources).      *)
(*                                                                         *)
(* Numbers.  A percentage is the float (counts[i] / total) * 100; the      *)
(* model keeps it as the exact fraction num/den with num = counts[i]*100   *)
(* and den = total, and compares fractions by cross-multiplication.  The   *)
(* slider's resize factor is kept in tenths (1..10 for 0.1..1.0), so       *)
(* int(w * resize_factor) is (w * tenths) \div 10.                         *)
(*                                                                         *)
(* Line 59 calls cv2.resize, and app.py has no "import cv2": as the file   *)
(* stands the name is unbound and the call raises NameError.  The model    *)
(* keeps both outcomes of that line (it raises; it returns the resized     *)
(* array), so that lines 60-81 and the cache of lines 147-159 are modelled *)
(* as written.                                                             *)
(***************************************************************************)
EXTENDS Integers, Sequences, FiniteSets, TLC

VARIABLES
    rgb, name, hex,                          \* SpecColour
    image_size, n_colors, resize_factor,     \* SpecExtract: the arguments
    pc, target, labels, centers,             \* SpecExtract: lines 57-66
    color_info, order, colors,               \* SpecExtract: lines 70-81
    last_image_hash, cached_colors, cache,   \* SpecSession: st.session_state
    shown, run,                              \* SpecSession: history of the reruns
    last_result, call                        \* SpecDetect

colourVars  == <<rgb, name, hex>>
extractVars == <<image_size, n_colors, resize_factor, pc, target, labels,
                 centers, color_info, order, colors>>
sessionVars == <<last_image_hash, cached_colors, cache, shown, run>>
detectVars  == <<last_result, call>>
vars == <<colourVars, extractVars, sessionVars, detectVars>>

-----------------------------------------------------------------------------
(* Bounds of the model.                                                    *)

\* Channel values are taken within ChanRadius of each threshold of
\* get_color_name (50, 100, 150, 200), plus 0, 180 and 255.
ChanRadius == 1
\* extract_colors_kmeans: images of at most MaxPixels pixels, up to MaxK clusters.
MaxPixels == 4
MaxK == 4
\* Session: the number of distinct uploaded image contents.
NumImages == 2
\* Detection loop: the number of distinct detection results, and of calls.
NumResults == 4
MaxCalls == 5

\* The sliders of lines 108 and 110.
MinK == 3
Tenths == 1..10

-----------------------------------------------------------------------------
(* get_color_name, lines 83-99.                                            *)

Thresholds == {50, 100, 150, 200}

Chan == {v \in 0..255 : \/ v \in {0, 180, 255}
                        \/ \E t \in Thresholds : v - t \in (0 - ChanRadius)..ChanRadius}

\* A yellow test that admits the threshold itself.
get_color_name_ge(c) ==
    LET r == c[1]  g == c[2]  b == c[3] IN
    IF r > 200 /\ g > 200 /\ b > 200 THEN "Putih/Terang"
    ELSE IF r < 50 /\ g < 50 /\ b < 50 THEN "Hitam/Gelap"
    ELSE IF r > g /\ r > b THEN (IF g > 100 THEN "Merah/Oranye" ELSE "Merah")
    ELSE IF g > r /\ g > b THEN "Hijau"
    ELSE IF b > r /\ b > g THEN (IF r > 100 THEN "Biru/Ungu" ELSE "Biru")
    ELSE IF r >= 150 /\ g >= 150 THEN "Kuning"
    ELSE "Abu-abu"

\* The dominance tests placed before the white and black tests.
get_color_name_reordered(c) ==
    LET r == c[1]  g == c[2]  b == c[3] IN
    IF r > g /\ r > b THEN (IF g > 100 THEN "Merah/Oranye" ELSE "Merah")
    ELSE IF g > r /\ g > b THEN "Hijau"
    ELSE IF b > r /\ b > g THEN (IF r > 100 THEN "Biru/Ungu" ELSE "Biru")
    ELSE IF r > 200 /\ g > 200 /\ b > 200 THEN "Putih/Terang"
    ELSE IF r < 50 /\ g < 50 /\ b < 50 THEN "Hitam/Gelap"
    ELSE IF r > 150 /\ g > 150 THEN "Kuning"
    ELSE "Abu-abu"

get_color_name(c) ==
    LET r == c[1]  g == c[2]  b == c[3] IN
    IF r > 200 /\ g > 200 /\ b > 200 THEN "Putih/Terang"
    ELSE IF r < 50 /\ g < 50 /\ b < 50 THEN "Hitam/Gelap"
    ELSE IF r > g /\ r > b THEN (IF g > 100 THEN "Merah/Oranye" ELSE "Merah")
    ELSE IF g > r /\ g > b THEN "Hijau"
    ELSE IF b > r /\ b > g THEN (IF r > 100 THEN "Biru/Ungu" ELSE "Biru")
    ELSE IF r > 150 /\ g > 150 THEN "Kuning"
    ELSE "Abu-abu"

-----------------------------------------------------------------------------
(* hex_code, line 73: the format string '#{:02x}{:02x}{:02x}' applied to   *)
(* the three channels of the centre.                                       *)

HexChars == <<"0", "1", "2", "3", "4", "5", "6", "7",
              "8", "9", "a", "b", "c", "d", "e", "f">>

\* The digits of n >= 0 in base 16, most significant first (format type 'x').
RECURSIVE HexDigitsOf(_)
HexDigitsOf(n) ==
    IF n < 16 THEN <<HexChars[n + 1]>>
    ELSE HexDigitsOf(n \div 16) \o <<HexChars[(n % 16) + 1]>>

\* '{:x}': no width, no zero fill.
Fmt02x_nopad(n) == HexDigitsOf(n)

\* '{:02x}': minimum width 2, filled with zeros on the left.
Fmt02x(n) ==
    LET d == HexDigitsOf(n) IN
    IF Len(d) < 2 THEN <<"0">> \o d ELSE d

hex_code(color) ==
    <<"#">> \o Fmt02x(color[1]) \o Fmt02x(color[2]) \o Fmt02x(color[3])

\* 'rgb' of line 78 keeps the three channels as printed; the model keeps them
\* as the triple.
rgb_text(color) == <<color[1], color[2], color[3]>>

-----------------------------------------------------------------------------
(* SpecColour: one colour, classified and formatted.                       *)

SweepRest == {0, 15, 16, 255}

\* Threshold neighbourhoods in all three channels at once, and each channel
\* swept over its whole range 0..255 with the other two fixed.
ColourInputs ==
    (Chan \X Chan \X Chan)
    \cup {<<v, s, t>> : v \in 0..255, s \in SweepRest, t \in SweepRest}
    \cup {<<s, v, t>> : v \in 0..255, s \in SweepRest, t \in SweepRest}
    \cup {<<s, t, v>> : v \in 0..255, s \in SweepRest, t \in SweepRest}

ExtractIdle ==
    /\ image_size = <<1, 1>> /\ n_colors = MinK /\ resize_factor = 10
    /\ pc = "idle" /\ target = <<0, 0>> /\ labels = <<>> /\ centers = <<>>
    /\ color_info = <<>> /\ order = <<>> /\ colors = <<>>

\* The record of a rerun that has not happened.
NoRun ==
    [kind |-> "idle", image_hash |-> {}, key |-> <<>>, changed |-> FALSE,
     hit |-> FALSE, called |-> FALSE, pre_hash |-> {}, pre_cache |-> <<>>,
     colors |-> <<>>, grid |-> <<>>, table |-> <<>>, hex_codes |-> <<>>,
     csv |-> <<>>]

SessionIdle ==
    /\ last_image_hash = {} /\ cached_colors = FALSE /\ cache = <<>>
    /\ shown = <<>> /\ run = NoRun

\* The record of a call that has not happened.
NoCall ==
    [op |-> "idle", arg |-> <<>>, found |-> FALSE, ret |-> <<>>,
     before |-> <<>>, latest |-> <<>>, n |-> 0]

DetectIdle == last_result = <<>> /\ call = NoCall

ColourIdle == rgb = <<0, 0, 0>> /\ name = "" /\ hex = <<>>

InitColour ==
    /\ rgb \in ColourInputs /\ name = "" /\ hex = <<>>
    /\ ExtractIdle /\ SessionIdle /\ DetectIdle

Classify ==
    /\ name = ""
    /\ name' = get_color_name(rgb)
    /\ UNCHANGED <<rgb, hex, extractVars, sessionVars, detectVars>>

Format ==
    /\ hex = <<>>
    /\ hex' = hex_code(rgb)
    /\ UNCHANGED <<rgb, name, extractVars, sessionVars, detectVars>>

NextColour == Classify \/ Format

SpecColour == InitColour /\ [][NextColour]_vars

-----------------------------------------------------------------------------
(* extract_colors_kmeans, lines 55-81.  Cluster i of the code (0-based) is *)
(* cluster i + 1 here: centers, color_info and colors are sequences.       *)

\* An image is its size <<w, h>>; the pixels themselves reach the model only
\* through what KMeans returns for them.
ImageSizes ==
    {s \in (1..MaxPixels) \X (1..MaxPixels) : s[1] * s[2] <= MaxPixels}

\* Cluster centres after .astype(int): pixels are 8-bit, so 0..255 per channel.
Palette == {<<255, 0, 0>>, <<10, 200, 171>>}

\* Line 59: (int(w * resize_factor), int(h * resize_factor)), factor in tenths.
target_size(size, f) == <<(size[1] * f) \div 10, (size[2] * f) \div 10>>

\* cv2.resize refuses an empty destination size.
Degenerate(t) == t[1] < 1 \/ t[2] < 1

\* counts[i] over every pixel but the first.
Count_skip_first(lab, i) == Cardinality({p \in 2..Len(lab) : lab[p] = i})

\* Line 67: counts = Counter(labels); counts[i] is 0 for a label that never occurs.
Count(lab, i) == Cardinality({p \in 1..Len(lab) : lab[p] = i})

\* Line 72: pct = (counts[i] / total) * 100, as the fraction num / den.
Percentage(lab, i) == [num |-> Count(lab, i) * 100, den |-> Len(lab)]

PctGE(a, b) == a.num * b.den >= b.num * a.den
PctGT(a, b) == a.num * b.den > b.num * a.den

\* Lines 70-79.
ColorInfo(cen, lab) ==
    [i \in 1..Len(cen) |->
        [color      |-> cen[i],
         hex        |-> hex_code(cen[i]),
         percentage |-> Percentage(lab, i),
         rgb        |-> rgb_text(cen[i])]]

\* An insertion that places an entry before the entries it ties with.
InsertDesc_before_ties(ord, i, info) ==
    LET p == Cardinality({q \in 1..Len(ord) :
                 PctGT(info[ord[q]].percentage, info[i].percentage)})
    IN  SubSeq(ord, 1, p) \o <<i>> \o SubSeq(ord, p + 1, Len(ord))

\* Line 81: sorted(..., reverse=True) is stable: an entry goes after every
\* entry already placed whose percentage is greater or equal.
InsertDesc(ord, i, info) ==
    LET p == Cardinality({q \in 1..Len(ord) :
                 PctGE(info[ord[q]].percentage, info[i].percentage)})
    IN  SubSeq(ord, 1, p) \o <<i>> \o SubSeq(ord, p + 1, Len(ord))

RECURSIVE SortOrder(_, _)
SortOrder(info, n) ==
    IF n = 0 THEN <<>> ELSE InsertDesc(SortOrder(info, n - 1), n, info)

\* The positions of color_info in the order sorted() returns them.
SortedOrder(info) == SortOrder(info, Len(info))

Sorted(info) == [j \in 1..Len(info) |-> info[SortedOrder(info)[j]]]

\* f"{pct:.1f}" of lines 173 and 189, in tenths of a percent: the fraction
\* rounded to the nearest tenth, ties to even (as the float is for fewer than
\* 80 pixels).
pct_text(p) ==
    LET q == (p.num * 10) \div p.den
        r == (p.num * 10) % p.den
    IN  IF 2 * r > p.den \/ (2 * r = p.den /\ q % 2 = 1) THEN q + 1 ELSE q

\* Lines 183-191: position j of the sequence is index j - 1 of the code.
df_data(cols) ==
    [j \in 1..Len(cols) |->
        [Rank       |-> (j - 1) + 1,
         HexCode    |-> cols[j].hex,
         RGB        |-> cols[j].rgb,
         Persentase |-> pct_text(cols[j].percentage),
         NamaWarna  |-> get_color_name(cols[j].color)]]

\* What lines 62-66 can hand on for total >= k pixels: one label per pixel and
\* k centres.
KMeansFits(total, k, palette) ==
    {[labels |-> l, centers |-> c] :
        l \in [1..total -> 1..k], c \in [1..k -> palette]}

\* The values one call can return; none when every run of it raises (an empty
\* target size at line 59, fewer pixels than clusters at line 63).
ExtractReturns(size, k, f, palette) ==
    LET t == target_size(size, f)
        total == t[1] * t[2]
    IN  IF Degenerate(t) \/ total < k THEN {}
        ELSE {Sorted(ColorInfo(fit.centers, fit.labels)) :
                 fit \in KMeansFits(total, k, palette)}

InitExtract ==
    /\ image_size \in ImageSizes
    /\ n_colors \in MinK..MaxK
    /\ resize_factor \in Tenths
    /\ pc = "start" /\ target = <<0, 0>> /\ labels = <<>> /\ centers = <<>>
    /\ color_info = <<>> /\ order = <<>> /\ colors = <<>>
    /\ ColourIdle /\ SessionIdle /\ DetectIdle

\* Lines 57-60.  The call of line 59 raises when the name cv2 is unbound
\* (NameError) or the target size is empty (cv2.error).
Resize ==
    /\ pc = "start"
    /\ target' = target_size(image_size, resize_factor)
    /\ \/ pc' = "raised"
       \/ ~Degenerate(target') /\ pc' = "resized"
    /\ UNCHANGED <<image_size, n_colors, resize_factor, labels, centers,
                   color_info, order, colors, colourVars, sessionVars, detectVars>>

\* Lines 62-66.  KMeans.fit raises ValueError for fewer samples than clusters;
\* otherwise it returns one label per pixel and n_colors centres.
Fit ==
    /\ pc = "resized"
    /\ LET total == target[1] * target[2] IN
       \/ /\ total < n_colors
          /\ pc' = "raised"
          /\ UNCHANGED <<labels, centers>>
       \/ /\ total >= n_colors
          /\ \E fit \in KMeansFits(total, n_colors, Palette) :
                labels' = fit.labels /\ centers' = fit.centers
          /\ pc' = "fitted"
    /\ UNCHANGED <<image_size, n_colors, resize_factor, target,
                   color_info, order, colors, colourVars, sessionVars, detectVars>>

\* Lines 67-81.
Summarize ==
    /\ pc = "fitted"
    /\ color_info' = ColorInfo(centers, labels)
    /\ order' = SortedOrder(color_info')
    /\ colors' = Sorted(color_info')
    /\ pc' = "returned"
    /\ UNCHANGED <<image_size, n_colors, resize_factor, target, labels, centers,
                   colourVars, sessionVars, detectVars>>

NextExtract == Resize \/ Fit \/ Summarize

SpecExtract == InitExtract /\ [][NextExtract]_vars

-----------------------------------------------------------------------------
(* The script body, lines 121-231, rerun by Streamlit on every interaction *)
(* over one session's st.session_state.                                    *)
(*                                                                         *)
(*   last_image_hash   st.session_state.last_image_hash: empty when the    *)
(*                     key is absent, else the one hash stored             *)
(*   cached_colors     whether the key 'cached_colors' is present          *)
(*   cache             the entries stored under a cache_key (line 154)     *)
(*   shown, run        history: the sequence first rendered for each key,  *)
(*                     and what the last rerun saw and rendered            *)

\* The uploads of a session: contents 1..NumImages, each as a 4x2 or a 2x4
\* image, analysed with 3 or 4 clusters at factor 0.1 or 0.9, every
\* cluster centre the one colour of SessionPalette.
SessionSizes == {<<4, 2>>, <<2, 4>>}
Images == [bytes : 1..NumImages, size : SessionSizes]
SessionNColors == {MinK, MinK + 1}
SessionFactors == {1, 9}
SessionPalette == {<<200, 50, 50>>}

\* Line 53: the MD5 of the pixel bytes; the image's size is not hashed.
get_image_hash(image) == image.bytes

\* Line 148: f"{image_hash}_{n_colors}_{resize_factor}".
cache_key(h, n, f) == <<h, n, f>>

\* A test that always recomputes.
CacheMiss_always(key, state) == TRUE

\* Line 150: cache_key not in st.session_state.
CacheMiss(key, state) == key \notin DOMAIN state

\* A handler that stores an empty result for the failed key.
OnFailure_store_empty(key, state) == state @@ (key :> <<>>)

\* Lines 155-157: st.error, st.stop; the session state is not touched.
OnFailure(key, state) == state

\* Lines 162-176: rows of n_cols swatches.
Min(a, b) == IF a < b THEN a ELSE b

Swatch(c) ==
    [hex  |-> c.hex,
     pct  |-> pct_text(c.percentage),
     name |-> get_color_name(c.color)]

Grid(cols) ==
    LET n_cols == Min(3, Len(cols))
        rows   == IF n_cols = 0 THEN 0 ELSE (Len(cols) + n_cols - 1) \div n_cols
    IN  [row \in 1..rows |->
            [j \in 1..Min(n_cols, Len(cols) - (row - 1) * n_cols) |->
                Swatch(cols[(row - 1) * n_cols + j])]]

\* Line 215: the hex codes in order, joined with ", ".
HexCodes(cols) == [j \in 1..Len(cols) |-> cols[j].hex]

InitSession ==
    /\ last_image_hash = {} /\ cached_colors = FALSE /\ cache = <<>>
    /\ shown = <<>> /\ run = NoRun
    /\ ColourIdle /\ ExtractIdle /\ DetectIdle

\* Lines 229-231: no file is uploaded.
RerunEmpty ==
    /\ run' = [NoRun EXCEPT !.kind = "placeholder",
                            !.pre_hash = last_image_hash, !.pre_cache = cache]
    /\ UNCHANGED <<last_image_hash, cached_colors, cache, shown,
                   colourVars, extractVars, detectVars>>

\* Lines 128-135 of a rerun with an upload; the rest of the rerun follows in
\* RerunFail, RerunCompute or RerunHit.
SeeImage(image) ==
    LET image_hash == get_image_hash(image)
        changed    == last_image_hash # {image_hash}
    IN  /\ last_image_hash' = IF changed THEN {image_hash} ELSE last_image_hash
        /\ cached_colors' = IF changed THEN FALSE ELSE cached_colors

Seen(image, n, f) ==
    [NoRun EXCEPT !.image_hash = {get_image_hash(image)},
                  !.key = cache_key(get_image_hash(image), n, f),
                  !.changed = (last_image_hash # {get_image_hash(image)}),
                  !.hit = (cache_key(get_image_hash(image), n, f) \in DOMAIN cache),
                  !.pre_hash = last_image_hash,
                  !.pre_cache = cache]

Rendered(r, cols) ==
    [r EXCEPT !.kind = "results", !.colors = cols, !.grid = Grid(cols),
              !.table = df_data(cols), !.hex_codes = HexCodes(cols),
              !.csv = df_data(cols)]

Remember(key, cols) ==
    shown' = IF key \in DOMAIN shown THEN shown ELSE shown @@ (key :> cols)

\* Lines 150-157: the key is missing and extract_colors_kmeans raises.
RerunFail(image, n, f) ==
    LET key == cache_key(get_image_hash(image), n, f) IN
    /\ CacheMiss(key, cache)
    /\ SeeImage(image)
    /\ cache' = OnFailure(key, cache)
    /\ run' = [Seen(image, n, f) EXCEPT !.kind = "error", !.called = TRUE]
    /\ UNCHANGED <<shown, colourVars, extractVars, detectVars>>

\* Lines 150-154 and 162-227: the key is missing and the call returns.
RerunCompute(image, n, f) ==
    LET key == cache_key(get_image_hash(image), n, f) IN
    /\ CacheMiss(key, cache)
    /\ SeeImage(image)
    /\ \E cols \in ExtractReturns(image.size, n, f, SessionPalette) :
          /\ cache' = [k \in DOMAIN cache \cup {key} |->
                          IF k = key THEN cols ELSE cache[k]]
          /\ run' = Rendered([Seen(image, n, f) EXCEPT !.called = TRUE], cols)
          /\ Remember(key, cols)
    /\ UNCHANGED <<colourVars, extractVars, detectVars>>

\* Lines 158-159 and 162-227: the key is present.
RerunHit(image, n, f) ==
    LET key == cache_key(get_image_hash(image), n, f) IN
    /\ ~CacheMiss(key, cache)
    /\ SeeImage(image)
    /\ cache' = cache
    /\ run' = Rendered(Seen(image, n, f), cache[key])
    /\ Remember(key, cache[key])
    /\ UNCHANGED <<colourVars, extractVars, detectVars>>

NextSession ==
    \/ RerunEmpty
    \/ \E image \in Images : \E n \in SessionNColors : \E f \in SessionFactors :
          \/ RerunFail(image, n, f)
          \/ RerunCompute(image, n, f)
          \/ RerunHit(image, n, f)

SpecSession == InitSession /\ [][NextSession]_vars

-----------------------------------------------------------------------------
(* The result cache of the detection loop, specification section 4.1.  An  *)
(* optional result is a sequence of length at most one: <<>> is "none".    *)
(*                                                                         *)
(*   last_result   the cache's current result                              *)
(*   call          history: the last call, what it returned (found is      *)
(*                 FALSE for the "no result yet" marker), the result held  *)
(*                 before it, the result most recently supplied by any     *)
(*                 call, and the number of calls                           *)

Results == 1..NumResults

\* update(new_result): replaces the current result unconditionally.
update(stored, new_result) == new_result

\* A get_or_last that returns a supplied result without storing it.
get_or_last_no_store(stored, new_result) ==
    IF new_result # <<>>
    THEN [stored |-> stored, found |-> TRUE, ret |-> new_result]
    ELSE [stored |-> stored, found |-> stored # <<>>, ret |-> stored]

\* get_or_last(optional new_result): a supplied result is stored and returned;
\* otherwise the stored result is returned, or the marker if there is none.
get_or_last(stored, new_result) ==
    IF new_result # <<>>
    THEN [stored |-> new_result, found |-> TRUE, ret |-> new_result]
    ELSE [stored |-> stored, found |-> stored # <<>>, ret |-> stored]

InitDetect ==
    /\ last_result = <<>> /\ call = NoCall
    /\ ColourIdle /\ ExtractIdle /\ SessionIdle

Update(r) ==
    /\ call.n < MaxCalls
    /\ last_result' = update(last_result, <<r>>)
    /\ call' = [op |-> "update", arg |-> <<r>>, found |-> FALSE, ret |-> <<>>,
                before |-> last_result, latest |-> <<r>>, n |-> call.n + 1]
    /\ UNCHANGED <<colourVars, extractVars, sessionVars>>

GetOrLast(arg) ==
    /\ call.n < MaxCalls
    /\ LET out == get_or_last(last_result, arg) IN
          /\ last_result' = out.stored
          /\ call' = [op |-> "get_or_last", arg |-> arg, found |-> out.found,
                      ret |-> out.ret, before |-> last_result,
                      latest |-> IF arg # <<>> THEN arg ELSE call.latest,
                      n |-> call.n + 1]
    /\ UNCHANGED <<colourVars, extractVars, sessionVars>>

NextDetect ==
    \/ \E r \in Results : Update(r)
    \/ \E r \in Results : GetOrLast(<<r>>)
    \/ GetOrLast(<<>>)

SpecDetect == InitDetect /\ [][NextDetect]_vars

-----------------------------------------------------------------------------
(* Claims about one colour.                                                *)

\* The rules of the classification in the order of the contract: 1 near-white,
\* 2 near-black, 3 red-dominant, 4 green-dominant, 5 blue-dominant, 6 yellow,
\* 7 the fallback.
RuleHolds(i, c) ==
    CASE i = 1 -> c[1] > 200 /\ c[2] > 200 /\ c[3] > 200
      [] i = 2 -> c[1] < 50 /\ c[2] < 50 /\ c[3] < 50
      [] i = 3 -> c[1] > c[2] /\ c[1] > c[3]
      [] i = 4 -> c[2] > c[1] /\ c[2] > c[3]
      [] i = 5 -> c[3] > c[1] /\ c[3] > c[2]
      [] i = 6 -> c[1] > 150 /\ c[2] > 150
      [] OTHER -> TRUE

RuleLabels(i, c) ==
    CASE i = 1 -> {"Putih/Terang"}
      [] i = 2 -> {"Hitam/Gelap"}
      [] i = 3 -> {"Merah", "Merah/Oranye"}
      [] i = 4 -> {"Hijau"}
      [] i = 5 -> {"Biru", "Biru/Ungu"}
      [] i = 6 -> {"Kuning"}
      [] OTHER -> {"Abu-abu"}

FirstRule(c) ==
    CHOOSE i \in 1..7 : RuleHolds(i, c) /\ \A j \in 1..(i - 1) : ~RuleHolds(j, c)

\* C1: the label returned for a colour is a label of the first rule, in the
\* order white, black, red, green, blue, yellow, gray, whose condition holds;
\* (255,255,255) is "Putih/Terang", (0,0,0) is "Hitam/Gelap" and (200,50,50)
\* is "Merah".
C1_FirstMatchWins ==
    name # "" =>
        /\ name \in RuleLabels(FirstRule(rgb), rgb)
        /\ \A i \in 1..7 : i # FirstRule(rgb) => name \notin RuleLabels(i, rgb)
        /\ (rgb = <<255, 255, 255>> => name = "Putih/Terang")
        /\ (rgb = <<0, 0, 0>> => name = "Hitam/Gelap")
        /\ (rgb = <<200, 50, 50>> => name = "Merah")

\* A classified colour that satisfies the white rule and the red-dominance
\* rule at once.
C1_Witness ==
    /\ name = "Putih/Terang"
    /\ RuleHolds(1, rgb) /\ RuleHolds(3, rgb)

NoChannelDominates(c) ==
    /\ ~(c[1] > c[2] /\ c[1] > c[3])
    /\ ~(c[2] > c[1] /\ c[2] > c[3])
    /\ ~(c[3] > c[1] /\ c[3] > c[2])

\* C9: "Kuning" is returned exactly when r > 150 and g > 150, not all three
\* channels exceed 200, and no channel is strictly greater than both others;
\* (200,180,50) is "Kuning" only if neither red nor green dominance matches it.
C9_YellowRule ==
    name # "" =>
        /\ (name = "Kuning") <=>
              /\ rgb[1] > 150 /\ rgb[2] > 150
              /\ ~(rgb[1] > 200 /\ rgb[2] > 200 /\ rgb[3] > 200)
              /\ NoChannelDominates(rgb)
        /\ (rgb = <<200, 180, 50>> /\ name = "Kuning")
               => (~RuleHolds(3, rgb) /\ ~RuleHolds(4, rgb))

\* A colour classified by the yellow rule.
C9_Witness == name = "Kuning" /\ rgb[3] < rgb[1]

\* int(s, 16) of a string of hex digits.
HexValue(ch) == CHOOSE v \in 0..15 : HexChars[v + 1] = ch

RECURSIVE ParseHex(_)
ParseHex(s) ==
    IF s = <<>> THEN 0
    ELSE 16 * ParseHex(SubSeq(s, 1, Len(s) - 1)) + HexValue(s[Len(s)])

LowerHexDigits == {HexChars[i] : i \in 1..16}

\* C2: the hex code of a centre is '#' and exactly six lowercase hex digits,
\* two per channel in r, g, b order, and the digits parse back to the centre.
C2_HexRoundTrip ==
    hex # <<>> =>
        /\ Len(hex) = 7
        /\ hex[1] = "#"
        /\ \A i \in 2..7 : hex[i] \in LowerHexDigits
        /\ ParseHex(SubSeq(hex, 2, 3)) = rgb[1]
        /\ ParseHex(SubSeq(hex, 4, 5)) = rgb[2]
        /\ ParseHex(SubSeq(hex, 6, 7)) = rgb[3]

\* A formatted centre with a channel below 16 (one significant digit) and a
\* channel that needs a letter digit.
C2_Witness ==
    /\ hex # <<>>
    /\ rgb[1] \in 1..15
    /\ rgb[3] = 255

-----------------------------------------------------------------------------
(* Claims about one call of extract_colors_kmeans.                         *)

RECURSIVE SumNum(_, _)
SumNum(cols, n) ==
    IF n = 0 THEN 0 ELSE SumNum(cols, n - 1) + cols[n].percentage.num

RECURSIVE SumCount(_, _)
SumCount(lab, n) ==
    IF n = 0 THEN 0 ELSE SumCount(lab, n - 1) + Count(lab, n)

\* C3: for any assignment of the pixels to the clusters the occupancy counts
\* sum to the pixel count, every share of the returned entries lies in
\* [0, 100], and the shares sum to 100 within 0.01.
C3_SharesSumTo100 ==
    pc = "returned" =>
        LET total == Len(labels)
            sum   == SumNum(colors, Len(colors))
        IN  /\ SumCount(labels, n_colors) = total
            /\ \A j \in 1..Len(colors) :
                  /\ colors[j].percentage.den = total
                  /\ colors[j].percentage.num >= 0
                  /\ colors[j].percentage.num <= 100 * total
            \* |sum / total - 100| <= 1/100
            /\ 100 * sum - 10000 * total <= total
            /\ 10000 * total - 100 * sum <= total

\* A returned result in which one cluster received no pixel.
C3_Witness ==
    /\ pc = "returned"
    /\ \E i \in 1..n_colors : Count(labels, i) = 0
    /\ \E i \in 1..n_colors : Count(labels, i) >= 2

\* C4: the returned sequence is a permutation of the k entries, ordered by
\* share descending, entries of equal share in cluster-index order; the Rank
\* of the table is the 1-based position in the sequence.
C4_SortedStable ==
    pc = "returned" =>
        /\ Len(colors) = n_colors
        /\ Len(order) = n_colors
        /\ {order[j] : j \in 1..n_colors} = 1..n_colors
        /\ \A j \in 1..n_colors : colors[j] = color_info[order[j]]
        /\ \A j \in 1..n_colors :
              colors[j].percentage = Percentage(labels, order[j])
        /\ \A i \in 1..n_colors : \A j \in 1..n_colors :
              i < j =>
                /\ PctGE(colors[i].percentage, colors[j].percentage)
                /\ (colors[i].percentage = colors[j].percentage
                        => order[i] < order[j])
        /\ \A j \in 1..n_colors :
              /\ df_data(colors)[j].Rank = j
              /\ df_data(colors)[j].HexCode = colors[j].hex

\* A returned result in which the largest cluster is not the first one and
\* two other clusters tie with a nonzero share.
C4_Witness ==
    /\ pc = "returned"
    /\ order[1] # 1
    /\ \E i \in 1..n_colors : \E j \in 1..n_colors :
          /\ i < j
          /\ Count(labels, i) = Count(labels, j)
          /\ Count(labels, i) > 0

\* C10: the target size passed to the resize has both dimensions >= 1 for
\* every image of at least 1 x 1 and every factor of the slider.
C10_TargetNeverDegenerate ==
    pc # "start" => (target[1] >= 1 /\ target[2] >= 1)

-----------------------------------------------------------------------------
(* Claims about the reruns of one session.                                 *)

Ran == run.kind \in {"error", "results"}

\* C5: when the key is already in the session state the rerun does not call
\* extract_colors_kmeans and renders exactly the stored sequence; every render
\* for a key shows the sequence first shown for it; a stored entry is never
\* overwritten.
C5_CacheHit ==
    /\ (Ran /\ run.hit) =>
          /\ ~run.called
          /\ run.kind = "results"
          /\ run.colors = run.pre_cache[run.key]
          /\ cache = run.pre_cache
    /\ run.kind = "results" =>
          /\ run.key \in DOMAIN shown
          /\ run.colors = shown[run.key]
          /\ run.table = df_data(shown[run.key])
    /\ \A key \in DOMAIN shown : key \in DOMAIN cache /\ cache[key] = shown[key]
    /\ \A key \in DOMAIN run.pre_cache :
          key \in DOMAIN cache /\ cache[key] = run.pre_cache[key]

\* A rerun served from the cache while another image's entry is stored too.
C5_Witness ==
    /\ run.kind = "results" /\ run.hit
    /\ Cardinality(DOMAIN cache) >= 2

NothingRendered ==
    /\ run.colors = <<>> /\ run.grid = <<>> /\ run.table = <<>>
    /\ run.hex_codes = <<>> /\ run.csv = <<>>

\* C7 as stated: a failed analysis shows the error and renders nothing else,
\* writes no entry under the key, calls the analysis once, and leaves the
\* cached results and last_image_hash as they were before the rerun.
C7_FailureLeavesSessionUntouched ==
    run.kind = "error" =>
        /\ NothingRendered
        /\ run.called /\ ~run.hit
        /\ run.key \notin DOMAIN cache
        /\ cache = run.pre_cache
        /\ last_image_hash = run.pre_hash

\* C7 as amended: a failed analysis shows the error and renders nothing else,
\* writes no entry under the key, calls the analysis once and leaves the
\* cached results as they were; last_image_hash is the hash of the image of
\* this rerun, which is the hash stored before only if the image is the same.
C7_FailureLeavesCacheUntouched ==
    run.kind = "error" =>
        /\ NothingRendered
        /\ run.called /\ ~run.hit
        /\ run.key \notin DOMAIN cache
        /\ cache = run.pre_cache
        /\ ~cached_colors
        /\ last_image_hash = run.image_hash
        /\ (~run.changed => last_image_hash = run.pre_hash)
        /\ (run.changed => last_image_hash # run.pre_hash)

\* A failed analysis of a new image while results of another image are cached.
C7_Witness ==
    /\ run.kind = "error"
    /\ run.changed
    /\ run.pre_hash # {}
    /\ DOMAIN run.pre_cache # {}

-----------------------------------------------------------------------------
(* Claims about the detection loop's result cache.                         *)

\* C8: the cache holds at most one result, the one most recently supplied;
\* get_or_last(R) stores R and returns R; get_or_last(None) returns the most
\* recently stored result, and the "no result yet" marker if none was stored.
C8_GetOrLast ==
    /\ Len(last_result) <= 1
    /\ last_result = call.latest
    /\ (call.op = "get_or_last" /\ call.arg # <<>>) =>
          /\ call.found /\ call.ret = call.arg
          /\ last_result = call.arg
    /\ (call.op = "get_or_last" /\ call.arg = <<>>) =>
          IF call.latest = <<>>
          THEN ~call.found
          ELSE call.found /\ call.ret = call.latest

\* get_or_last(None), as the third call or later, returning the result the
\* cache held before it.
C8_Witness ==
    /\ call.op = "get_or_last" /\ call.arg = <<>>
    /\ call.found /\ call.ret = <<2>>
    /\ call.before = <<2>>
    /\ call.n >= 3

=============================================================================
